---- MODULE Spec2Model ----
(***************************************************************************)
(* BookScape Explorer (src/BookScape.py): fetch-with-retry, record         *)
(* transformation, SQLite persistence and two entries of the query         *)
(* catalog.                                                                *)
(*                                                                         *)
(* Representation.  A JSON / Python value is a one-field record whose      *)
(* field name is its type: [null], [bool], [num], [str], [list], [obj].    *)
(* A string is a sequence of characters, a character is a one-element TLA+ *)
(* string naming it ("sup2" names U+00B2, SUPERSCRIPT TWO).  A dict is a   *)
(* function from keys to values; an absent key is a key outside DOMAIN.    *)
(* Prices are integers counting cents (7.99 is 799).                       *)
(* Of the 21 columns the model keeps one per distinct pattern of           *)
(* transform_data: book_id, title, authors, page_count, published_year,    *)
(* is_ebook, amount_retail_price.                                          *)
(***************************************************************************)
EXTENDS Integers, Sequences, FiniteSets, TLC

VARIABLES pc, selected, attempt, requests, waited, statuses, books, df,
          outcome, db, result

vars == <<pc, selected, attempt, requests, waited, statuses, books, df,
          outcome, db, result>>

(***************************************************************************)
(* Python / JSON values                                                    *)
(***************************************************************************)
None == [null |-> TRUE]

Bool(b) == [bool |-> b]

Num(n) == [num |-> n]

Str(s) == [str |-> s]

List(l) == [list |-> l]

Obj(o) == [obj |-> o]

EmptyDict == Obj(<<>>)

IsNone(v) == "null" \in DOMAIN v

IsStr(v) == "str" \in DOMAIN v

IsNum(v) == "num" \in DOMAIN v

IsList(v) == "list" \in DOMAIN v

IsDict(v) == "obj" \in DOMAIN v

\* dict.get(key, default)
get(d, k, default) == IF k \in DOMAIN d.obj THEN d.obj[k] ELSE default

\* truth value of a Python object
truthy(v) ==
    IF "bool" \in DOMAIN v THEN v.bool
    ELSE IF IsNone(v) THEN FALSE
    ELSE IF IsNum(v) THEN v.num # 0
    ELSE IF IsStr(v) THEN v.str # <<>>
    ELSE IF IsList(v) THEN v.list # <<>>
    ELSE DOMAIN v.obj # {}

(***************************************************************************)
(* Strings                                                                 *)
(***************************************************************************)
\* code points of the characters the model uses
Ord == [c \in {"-", "0", "1", "2", "9", "A", "B", "U", "a", "k", "n", "o", "w", "sup2"} |->
          CASE c = "-" -> 45 [] c = "0" -> 48 [] c = "1" -> 49 [] c = "2" -> 50
            [] c = "9" -> 57 [] c = "A" -> 65 [] c = "B" -> 66 [] c = "U" -> 85
            [] c = "a" -> 97 [] c = "k" -> 107 [] c = "n" -> 110 [] c = "o" -> 111
            [] c = "w" -> 119 [] c = "sup2" -> 178]

\* str.isdigit(): non-empty and every character has the Unicode digit property
\* (the ASCII digits, and also characters such as U+00B2)
isdigit(s) == s # <<>> /\ \A i \in 1..Len(s) : s[i] \in {"0", "1", "2", "9", "sup2"}

\* s[:n]
prefix(s, n) == SubSeq(s, 1, IF Len(s) < n THEN Len(s) ELSE n)

RECURSIVE join(_, _)
\* sep.join(parts), parts a sequence of strings
join(sep, parts) ==
    IF parts = <<>> THEN <<>>
    ELSE IF Len(parts) = 1 THEN parts[1]
    ELSE parts[1] \o sep \o join(sep, Tail(parts))

CommaSpace == <<",", " ">>

S_Unknown == <<"U", "n", "k", "n", "o", "w", "n">>

S_NA == <<"N", "/", "A">>

S_UnknownAuthor == <<"U", "n", "k", "n", "o", "w", "n", " ", "A", "u", "t", "h", "o", "r">>

(***************************************************************************)
(* transform_data                                                          *)
(***************************************************************************)
\* what str.join accepts: a list of str, or a str (iterated by character)
joinable(v) ==
    \/ IsList(v) /\ \A i \in 1..Len(v.list) : IsStr(v.list[i])
    \/ IsStr(v)

join_parts(v) ==
    IF IsList(v) THEN [i \in 1..Len(v.list) |-> v.list[i].str]
    ELSE [i \in 1..Len(v.str) |-> <<v.str[i]>>]

\* published_year without the isdigit() test
published_year_nodigits(volume_info) ==
    LET published_date == get(volume_info, "publishedDate", Str(S_Unknown))
    IN  IF IsStr(published_date) /\ Len(published_date.str) >= 4
        THEN prefix(published_date.str, 4)
        ELSE S_Unknown

\* lines 38-41
published_year(volume_info) ==
    LET published_date == get(volume_info, "publishedDate", Str(S_Unknown))
    IN  IF IsStr(published_date) /\ Len(published_date.str) >= 4
           /\ isdigit(prefix(published_date.str, 4))
        THEN prefix(published_date.str, 4)
        ELSE S_Unknown

\* the body of the loop, lines 33-65: the record appended for one item, or
\* the exception the body raises
transform_item(book) ==
    IF ~IsDict(book) THEN [raised |-> "AttributeError"]
    ELSE
    LET volume_info == get(book, "volumeInfo", EmptyDict)
        sale_info == get(book, "saleInfo", EmptyDict)
    IN  IF ~IsDict(volume_info) \/ ~IsDict(sale_info) THEN [raised |-> "AttributeError"]
        ELSE
        LET retail_price == get(sale_info, "retailPrice", EmptyDict)
            authors == get(volume_info, "authors", List(<<Str(S_UnknownAuthor)>>))
        IN  IF ~IsDict(retail_price) THEN [raised |-> "AttributeError"]
            ELSE IF ~joinable(authors) THEN [raised |-> "TypeError"]
            ELSE
            LET joined == join(CommaSpace, join_parts(authors))
            IN  [row |->
                  [book_id |-> get(book, "id", None),
                   title |-> get(volume_info, "title", Str(S_NA)),
                   authors |-> Str(IF joined # <<>> THEN joined ELSE S_UnknownAuthor),
                   page_count |-> get(volume_info, "pageCount", Num(0)),
                   published_year |-> Str(published_year(volume_info)),
                   is_ebook |-> Num(IF truthy(get(sale_info, "isEbook", Bool(FALSE))) THEN 1 ELSE 0),
                   amount_retail_price |-> get(retail_price, "amount", Num(0))]]

RECURSIVE transform_rows(_, _)
transform_rows(items, data) ==
    IF items = <<>> THEN [data |-> data]
    ELSE LET r == transform_item(Head(items))
         IN  IF "raised" \in DOMAIN r THEN r
             ELSE transform_rows(Tail(items), Append(data, r.row))

\* lines 30-66: [data |-> the rows of the DataFrame] or [raised |-> exception]
transform_data(items) == transform_rows(items, <<>>)

Raised(r) == "raised" \in DOMAIN r

NoDf == [data |-> <<>>]

(***************************************************************************)
(* The store: the books table of books.db                                  *)
(***************************************************************************)
NoDatabase == [exists |-> FALSE, rows |-> <<>>]

\* schema creation that drops and recreates the table
initialize_database_recreate(conn) == [exists |-> TRUE, rows |-> <<>>]

\* lines 70-99: CREATE TABLE IF NOT EXISTS books (book_id TEXT PRIMARY KEY, ...)
initialize_database(conn) ==
    IF conn.exists THEN conn ELSE [exists |-> TRUE, rows |-> <<>>]

\* PRIMARY KEY on a TEXT column: a NULL key never conflicts
pk_conflict(rows, row) ==
    /\ ~IsNone(row.book_id)
    /\ \E j \in 1..Len(rows) : rows[j].book_id = row.book_id

RECURSIVE insert_rows(_, _)
\* the INSERT statements of DataFrame.to_sql, one per record, in order, up
\* to the first constraint violation
insert_rows(rows, data) ==
    IF data = <<>> THEN [raised |-> FALSE, rows |-> rows]
    ELSE IF pk_conflict(rows, Head(data)) THEN [raised |-> TRUE, rows |-> rows]
    ELSE insert_rows(Append(rows, Head(data)), Tail(data))

\* to_sql with if_exists="replace"
save_to_database_replace(conn, data) ==
    LET r == insert_rows(<<>>, data)
    IN  IF r.raised THEN [raised |-> TRUE, conn |-> conn]
        ELSE [raised |-> FALSE, conn |-> [conn EXCEPT !.rows = r.rows]]

\* an append that commits each INSERT as it goes
save_to_database_autocommit(conn, data) ==
    LET r == insert_rows(conn.rows, data)
    IN  [raised |-> r.raised, conn |-> [conn EXCEPT !.rows = r.rows]]

\* lines 103-104: df.to_sql("books", conn, if_exists="append", index=False);
\* to_sql runs its INSERTs in one transaction, committed at the end and
\* rolled back when a statement raises
save_to_database(conn, data) ==
    LET r == insert_rows(conn.rows, data)
    IN  IF r.raised THEN [raised |-> TRUE, conn |-> conn]
        ELSE [raised |-> FALSE, conn |-> [conn EXCEPT !.rows = r.rows]]

(***************************************************************************)
(* SQL evaluation                                                          *)
(***************************************************************************)
RECURSIVE str_less(_, _)
\* BINARY collation: comparison by code point, a proper prefix is smaller
str_less(a, b) ==
    IF b = <<>> THEN FALSE
    ELSE IF a = <<>> THEN TRUE
    ELSE IF Ord[Head(a)] # Ord[Head(b)] THEN Ord[Head(a)] < Ord[Head(b)]
    ELSE str_less(Tail(a), Tail(b))

\* storage classes in sort order: NULL, then numbers, then text
sql_class(v) == IF IsNone(v) THEN 0 ELSE IF IsNum(v) THEN 1 ELSE 2

\* the order ORDER BY uses
sql_less(a, b) ==
    IF sql_class(a) # sql_class(b) THEN sql_class(a) < sql_class(b)
    ELSE IF IsNum(a) THEN a.num < b.num
    ELSE IF IsStr(a) THEN str_less(a.str, b.str)
    ELSE FALSE

\* a comparison in a WHERE clause: not true when an operand is NULL
sql_compare(a, op, b) ==
    IF IsNone(a) \/ IsNone(b) THEN FALSE
    ELSE IF op = ">" THEN sql_less(b, a)
    ELSE ~sql_less(a, b)

RECURSIVE insert_desc(_, _, _)
insert_desc(sorted, row, col) ==
    IF sorted = <<>> THEN <<row>>
    ELSE IF sql_less(Head(sorted)[col], row[col]) THEN <<row>> \o sorted
    ELSE <<Head(sorted)>> \o insert_desc(Tail(sorted), row, col)

RECURSIVE sort_desc(_, _, _)
\* ORDER BY col DESC over the rows in rowid order
sort_desc(rows, col, sorted) ==
    IF rows = <<>> THEN sorted
    ELSE sort_desc(Tail(rows), col, insert_desc(sorted, Head(rows), col))

Top5 == "Top 5 Most Expensive Books"

After2010 == "Books Published After 2010 with at Least 500 Pages"

\* lines 139-160, the two entries the model evaluates
queries ==
    [n \in {Top5, After2010} |->
       IF n = Top5
       THEN [columns |-> {"title", "amount_retail_price"},
             where |-> {},
             order_by |-> "amount_retail_price",
             limit |-> 5]
       ELSE [columns |-> {"title", "page_count"},
             where |-> {[col |-> "published_year", op |-> ">", lit |-> Str(<<"2", "0", "1", "0">>)],
                        [col |-> "page_count", op |-> ">=", lit |-> Num(500)]},
             order_by |-> "",
             limit |-> -1]]

sql_where(rows, q) ==
    SelectSeq(rows, LAMBDA r : \A c \in q.where : sql_compare(r[c.col], c.op, c.lit))

sql_order(rows, q) ==
    IF q.order_by = "" THEN rows ELSE sort_desc(rows, q.order_by, <<>>)

\* a query evaluated without its LIMIT
sql_limit_ignored(rows, q) == rows

sql_limit(rows, q) ==
    IF q.limit < 0 THEN rows ELSE prefix(rows, q.limit)

\* lines 108-109: pd.read_sql_query(query, conn)
query_database(conn, q) ==
    LET rows == sql_limit(sql_order(sql_where(conn.rows, q), q), q)
    IN  [i \in 1..Len(rows) |-> [c \in q.columns |-> rows[i][c]]]

NoResult == [query |-> "", rows |-> <<>>]

\* lines 166-169: the selected analysis, run on every script run that gets there
run_selected(conn, sel) == [query |-> sel, rows |-> query_database(conn, queries[sel])]

(***************************************************************************)
(* Inputs: the items the books API can return                              *)
(***************************************************************************)
MaxRows == 6

MaxBatch == 2

ItemEbook ==
    Obj([id |-> Str(<<"b", "1">>),
         volumeInfo |-> Obj([title |-> Str(<<"E">>),
                             authors |-> List(<<Str(<<"A">>), Str(<<"B">>)>>),
                             publishedDate |-> Str(<<"2", "0", "1", "1", "-", "0", "1">>),
                             pageCount |-> Num(600)]),
         saleInfo |-> Obj([isEbook |-> Bool(TRUE),
                           retailPrice |-> Obj([amount |-> Num(799)])])])

ItemPhysical ==
    Obj([id |-> Str(<<"b", "2">>),
         volumeInfo |-> Obj([title |-> Str(<<"P">>),
                             publishedDate |-> Str(<<"2", "0", "1", "0">>),
                             pageCount |-> Num(700)]),
         saleInfo |-> Obj([isEbook |-> Bool(FALSE),
                           retailPrice |-> Obj([amount |-> Num(2000)])])])

ItemNoDate ==
    Obj([id |-> Str(<<"b", "3">>),
         volumeInfo |-> Obj([title |-> Str(<<"N">>), pageCount |-> Num(500)])])

ItemNoId ==
    Obj([volumeInfo |-> Obj([title |-> Str(<<"X">>),
                             authors |-> List(<<>>),
                             publishedDate |-> Str(<<"2", "0", "1", "2">>),
                             pageCount |-> Num(499)]),
         saleInfo |-> Obj([retailPrice |-> Obj([amount |-> Num(2000)])])])

ItemNullAuthors ==
    Obj([id |-> Str(<<"b", "4">>),
         volumeInfo |-> Obj([title |-> Str(<<"Z">>), authors |-> None])])

Items == {ItemEbook, ItemPhysical, ItemNoDate, ItemNoId, ItemNullAuthors}

Batches == UNION {[1..n -> Items] : n \in 1..MaxBatch}

\* the JSON bodies of a 200 response
Bodies == {EmptyDict, Obj([items |-> None])} \cup {Obj([items |-> List(b)]) : b \in Batches}

OtherStatuses == {404, 500}

(***************************************************************************)
(* The script                                                              *)
(***************************************************************************)
\* a loop of one more attempt
retries_four == 3 + 1

retries == 3

SleepSeconds == 10

Queries == DOMAIN queries

\* line 113, on a machine without books.db
Init ==
    /\ pc = "idle"
    /\ selected = ""
    /\ attempt = 0
    /\ requests = 0
    /\ waited = 0
    /\ statuses = <<>>
    /\ books = List(<<>>)
    /\ df = NoDf
    /\ outcome = "none"
    /\ db = initialize_database(NoDatabase)
    /\ result = NoResult

\* lines 127-133 for the value fetch_books returned
ingest(conn, fetched) ==
    IF truthy(fetched)
    THEN LET d == transform_data(fetched.list)
         IN  IF Raised(d) THEN [df |-> d, outcome |-> d.raised, conn |-> conn]
             ELSE LET s == save_to_database(conn, d.data)
                  IN  [df |-> d,
                       outcome |-> IF s.raised THEN "IntegrityError" ELSE "saved",
                       conn |-> s.conn]
    ELSE [df |-> NoDf, outcome |-> "no_books", conn |-> conn]

\* fetch_books returns `fetched`; the script goes on to lines 127-133 and,
\* unless an exception ended the run, to lines 166-169
Return(fetched) ==
    LET r == ingest(db, fetched)
    IN  /\ pc' = "idle"
        /\ books' = fetched
        /\ df' = r.df
        /\ outcome' = r.outcome
        /\ db' = r.conn
        /\ result' = IF r.outcome \in {"saved", "no_books"}
                     THEN run_selected(r.conn, selected)
                     ELSE NoResult

\* a script run without the Search button: lines 113 and 166-169
Rerun(sel) ==
    /\ pc = "idle"
    /\ selected' = sel
    /\ db' = initialize_database(db)
    /\ result' = run_selected(db', sel)
    /\ attempt' = 0
    /\ requests' = 0
    /\ waited' = 0
    /\ statuses' = <<>>
    /\ books' = List(<<>>)
    /\ df' = NoDf
    /\ outcome' = "none"
    /\ pc' = "idle"

\* a script run with the Search button pressed: line 113, then fetch_books
\* up to its first request (lines 14-16)
Search(sel) ==
    /\ pc = "idle"
    /\ selected' = sel
    /\ db' = initialize_database(db)
    /\ result' = NoResult
    /\ attempt' = 0
    /\ requests' = 0
    /\ waited' = 0
    /\ statuses' = <<>>
    /\ books' = List(<<>>)
    /\ df' = NoDf
    /\ outcome' = "none"
    /\ pc' = "fetching"

\* lines 17-19: the request is answered 200
Respond200(body) ==
    /\ pc = "fetching"
    /\ attempt < retries
    /\ LET items == get(body, "items", List(<<>>))
       IN  /\ IsList(items) => Len(db.rows) + Len(items.list) <= MaxRows
           /\ Return(items)
    /\ attempt' = attempt + 1
    /\ requests' = requests + 1
    /\ statuses' = Append(statuses, 200)
    /\ UNCHANGED <<waited, selected>>

\* lines 17, 20-22: the request is answered 403; after the sleep the loop
\* goes on, or is exhausted and line 26 returns
Respond403 ==
    /\ pc = "fetching"
    /\ attempt < retries
    /\ attempt' = attempt + 1
    /\ requests' = requests + 1
    /\ statuses' = Append(statuses, 403)
    /\ waited' = waited + SleepSeconds
    /\ IF attempt + 1 < retries
       THEN UNCHANGED <<pc, books, df, outcome, db, result>>
       ELSE Return(List(<<>>))
    /\ UNCHANGED selected

\* any other status handled with a sleep before the return
RespondOther_sleeps(status) ==
    /\ pc = "fetching"
    /\ attempt < retries
    /\ attempt' = attempt + 1
    /\ requests' = requests + 1
    /\ statuses' = Append(statuses, status)
    /\ waited' = waited + SleepSeconds
    /\ Return(List(<<>>))
    /\ UNCHANGED selected

\* lines 17, 23-25: any other status
RespondOther(status) ==
    /\ pc = "fetching"
    /\ attempt < retries
    /\ attempt' = attempt + 1
    /\ requests' = requests + 1
    /\ statuses' = Append(statuses, status)
    /\ Return(List(<<>>))
    /\ UNCHANGED <<waited, selected>>

Next ==
    \/ \E sel \in Queries : Rerun(sel)
    \/ \E sel \in Queries : Search(sel)
    \/ \E body \in Bodies : Respond200(body)
    \/ Respond403
    \/ \E status \in OtherStatuses : RespondOther(status)

Spec == Init /\ [][Next]_vars

(***************************************************************************)
(* transform_data on its own: the inputs are drawn from bounded sets       *)
(***************************************************************************)
MaxDateLen == 5

MaxItems == 2

DateChars == {"2", "0", "a", "-", "sup2"}

DateStrings == UNION {[1..n -> DateChars] : n \in 0..MaxDateLen}

DateValues == {None, Num(2024)} \cup {Str(s) : s \in DateStrings}

AuthorValues ==
    {None, Num(1), List(<<>>), List(<<Str(<<>>)>>), List(<<Str(<<"A">>)>>),
     List(<<Str(<<"A">>), Str(<<"B">>)>>), List(<<Num(1)>>), Str(<<"A", "B">>)}

DatedItems == {Obj([id |-> Str(<<"b", "1">>), volumeInfo |-> Obj("publishedDate" :> v)]) : v \in DateValues}

AuthoredItems == {Obj([volumeInfo |-> Obj("authors" :> v)]) : v \in AuthorValues}

PartialItems ==
    {EmptyDict,
     Obj([id |-> None]),
     Obj([volumeInfo |-> None]),
     Obj([saleInfo |-> None]),
     Obj([saleInfo |-> Obj([retailPrice |-> None])]),
     Obj([saleInfo |-> Obj([isEbook |-> Str(<<"a">>), retailPrice |-> EmptyDict])])}

TransformInputs ==
    {<<item>> : item \in DatedItems \cup AuthoredItems \cup PartialItems}
      \cup UNION {[1..n -> Items \cup PartialItems] : n \in 0..MaxItems}

InitTransform ==
    /\ pc = "transform"
    /\ books \in {List(l) : l \in TransformInputs}
    /\ selected = ""
    /\ attempt = 0
    /\ requests = 0
    /\ waited = 0
    /\ statuses = <<>>
    /\ df = NoDf
    /\ outcome = "none"
    /\ db = initialize_database(NoDatabase)
    /\ result = NoResult

\* line 128: df = transform_data(books)
Transform ==
    /\ pc = "transform"
    /\ df' = transform_data(books.list)
    /\ pc' = "transformed"
    /\ UNCHANGED <<selected, attempt, requests, waited, statuses, books, outcome, db, result>>

NextTransform == Transform

SpecTransform == InitTransform /\ [][NextTransform]_vars

(***************************************************************************)
(* Properties                                                              *)
(***************************************************************************)
Last(s) == s[Len(s)]

Min(a, b) == IF a < b THEN a ELSE b

Count(s, v) == Cardinality({i \in 1..Len(s) : s[i] = v})

\* the step in which fetch_books returns a non-empty list that
\* transform_data turns into df', so that save_to_database(conn, df') runs
SaveStep == pc = "fetching" /\ pc' = "idle" /\ truthy(books') /\ ~Raised(df')

HasId(r) == ~IsNone(r.book_id)

InTable(rows, r) == HasId(r) /\ \E j \in 1..Len(rows) : rows[j].book_id = r.book_id

NoCollision(rows, data) ==
    \A i \in 1..Len(data) :
       /\ ~InTable(rows, data[i])
       /\ HasId(data[i]) => \A j \in 1..Len(data) : j # i => data[j].book_id # data[i].book_id

\* C1: a call of fetch_books issues at most 3 requests; every wait is of
\* exactly 10 seconds; a call answered 403 three times returns the empty
\* list having waited at least 20 seconds.
C1_AtMostThreeAttempts ==
    /\ requests <= 3
    /\ Len(statuses) = requests
    /\ waited = 10 * Count(statuses, 403)
    /\ (pc = "idle" /\ statuses = <<403, 403, 403>>) =>
          (books = List(<<>>) /\ waited >= 20)

C1_Witness == pc = "idle" /\ statuses = <<403, 403, 403>> /\ requests = 3

\* C2: a response that is neither 200 nor 403 makes fetch_books return the
\* empty list in that very step, with no further request and no wait, and
\* the ingestion adds no row: transform_data and save_to_database do not run.
C2_OtherStatusReturnsAtOnce ==
    [][(pc = "fetching" /\ statuses' # statuses /\ Last(statuses') \notin {200, 403}) =>
          /\ pc' = "idle"
          /\ books' = List(<<>>)
          /\ requests' = requests + 1
          /\ waited' = waited
          /\ df' = NoDf
          /\ outcome' = "no_books"
          /\ db' = db]_vars

C2_Witness ==
    /\ pc = "idle"
    /\ statuses = <<403, 500>>
    /\ requests = 2
    /\ waited = 10
    /\ outcome = "no_books"
    /\ Len(db.rows) > 0

\* C5: an append of N records whose book_id values collide neither with a
\* stored row nor with each other leaves the table with N more rows, the
\* new rows being the records of the batch, in order, after the old rows.
C5_AppendAddsN ==
    [][(SaveStep /\ NoCollision(db.rows, df'.data)) =>
          /\ outcome' = "saved"
          /\ Len(db'.rows) = Len(db.rows) + Len(df'.data)
          /\ SubSeq(db'.rows, 1, Len(db.rows)) = db.rows
          /\ SubSeq(db'.rows, Len(db.rows) + 1, Len(db'.rows)) = df'.data]_vars

C5_Witness ==
    /\ outcome = "saved"
    /\ Len(df.data) = 2
    /\ Len(db.rows) >= 4
    /\ \E i \in 1..Len(db.rows) : ~HasId(db.rows[i])

\* C6: an ingestion whose batch holds a book_id (a present one, not NULL)
\* that is already stored fails with a constraint violation and leaves the
\* table as it was: no record of the batch is committed.
C6_DuplicateAddsNothing ==
    [][(SaveStep /\ \E i \in 1..Len(df'.data) : InTable(db.rows, df'.data[i])) =>
          /\ outcome' = "IntegrityError"
          /\ db' = db]_vars

C6_Witness ==
    /\ outcome = "IntegrityError"
    /\ Len(df.data) = 2
    /\ ~InTable(db.rows, df.data[1])
    /\ InTable(db.rows, df.data[2])

Price(r) == r.amount_retail_price.num

Top5Columns(r) == [c \in {"title", "amount_retail_price"} |-> r[c]]

\* C7: "Top 5 Most Expensive Books" returns min(5, stored rows) rows, each of
\* them a stored row, by non-increasing retail price, and every stored row
\* dearer than a returned one is returned too; on the fixture of prices 7.99
\* and 20 it returns the two rows in the order 20, 7.99.
C7_Top5 ==
    result.query = Top5 =>
       LET out == result.rows
           stored == db.rows
       IN  /\ Len(out) = Min(5, Len(stored))
           /\ \A i \in 1..Len(out) : \A j \in i..Len(out) : Price(out[i]) >= Price(out[j])
           /\ \A i \in 1..Len(out) :
                 Count(out, out[i]) <=
                    Cardinality({k \in 1..Len(stored) : Top5Columns(stored[k]) = out[i]})
           /\ \A i \in 1..Len(out) :
                 Cardinality({k \in 1..Len(stored) : Price(stored[k]) > Price(out[i])})
                    = Cardinality({k \in 1..Len(out) : Price(out[k]) > Price(out[i])})
           /\ [k \in 1..Len(stored) |-> Price(stored[k])] = <<799, 2000>> =>
                 [k \in 1..Len(out) |-> Price(out[k])] = <<2000, 799>>

C7_Witness ==
    /\ result.query = Top5
    /\ Len(db.rows) = 6
    /\ Len(result.rows) = 5
    /\ \E k \in 1..6 : Price(db.rows[k]) = 799
    /\ \A i \in 1..5 : Price(result.rows[i]) > 799

\* C8: no step updates or deletes a stored row: the table before a step is
\* a prefix of the table after it, and a script run started from the idle
\* state (initialize_database again, then the selected query, or the start
\* of a search) leaves the table as it is.
C8_RowsNeverLost ==
    [][/\ db.exists => db'.exists
       /\ Len(db.rows) <= Len(db'.rows)
       /\ SubSeq(db'.rows, 1, Len(db.rows)) = db.rows
       /\ pc = "idle" => db' = db]_vars

C8_Witness ==
    /\ pc = "idle"
    /\ outcome = "none"
    /\ result.query = After2010
    /\ Len(result.rows) > 0
    /\ Len(db.rows) >= 3

\* C9: every 10-second wait of fetch_books is followed by another request,
\* so a call answered 403 on all 3 attempts has waited exactly 2 times.
C9_WaitThenRetry ==
    pc = "idle" =>
       /\ requests > 0 => waited <= SleepSeconds * (requests - 1)
       /\ statuses = <<403, 403, 403>> => waited = 2 * SleepSeconds

DigitValue(c) == CASE c = "0" -> 0 [] c = "1" -> 1 [] c = "2" -> 2 [] c = "9" -> 9

IsYear(s) == Len(s) = 4 /\ \A i \in 1..4 : s[i] \in {"0", "1", "2", "9"}

YearValue(s) ==
    1000 * DigitValue(s[1]) + 100 * DigitValue(s[2]) + 10 * DigitValue(s[3]) + DigitValue(s[4])

After2010Row(r) ==
    /\ IsYear(r.published_year.str)
    /\ YearValue(r.published_year.str) > 2010
    /\ IsNum(r.page_count)
    /\ r.page_count.num >= 500

\* C10: "Books Published After 2010 with at Least 500 Pages" returns exactly
\* the stored rows whose published_year is a 4-digit year above 2010 and
\* whose page_count is at least 500; no row of year "Unknown" is returned.
C10_After2010 ==
    result.query = After2010 =>
       LET hits == SelectSeq(db.rows, After2010Row)
       IN  result.rows = [i \in 1..Len(hits) |-> [c \in {"title", "page_count"} |-> hits[i][c]]]

\* C3: transform_data never fails and returns one record per item.
C3_Total ==
    pc = "transformed" => (~Raised(df) /\ Len(df.data) = Len(books.list))

DateOf(item) == get(get(item, "volumeInfo", EmptyDict), "publishedDate", None)

FourDigits(v) ==
    /\ IsStr(v)
    /\ Len(v.str) >= 4
    /\ \A i \in 1..4 : v.str[i] \in {"0", "1", "2", "9", "sup2"}

FirstFour(v) == [i \in 1..Min(4, Len(v.str)) |-> v.str[i]]

====
